---- MODULE Spec2Model ----
(***************************************************************************)
(* Session-scoped conversation store of cf_ai_chat and the handlers that   *)
(* read, append and clear it.                                              *)
(*                                                                         *)
(* The repository holds four variants of the chat back end:                *)
(*   "server" : class Server                    (src/src/server.ts)        *)
(*   "p000"   : worker with optional D1 binding (src/unnamed/part_000)     *)
(*   "p004"   : worker with D1                  (src/unnamed/part_004)     *)
(*   "agent"  : ChatAgent behind the Chat DO    (src/src/agent.ts,         *)
(*                                               src/src/chat-do.ts)       *)
(* A deployment runs one of them; Init picks it.  Every await of a handler *)
(* is a step boundary, so requests interleave exactly at the suspension    *)
(* points of the code.  A D1 statement either runs or throws; a throwing   *)
(* statement also stands for an absent DB binding or a missing table.      *)
(*                                                                         *)
(* Spec is the request handling of all variants over an existing table.    *)
(* SpecInit is part_004's initializeDatabase racing with itself, within    *)
(* one worker instance and across instances, over an absent or a filled    *)
(* table.                                                                  *)
(***************************************************************************)
EXTENDS Integers, Sequences, FiniteSets, TLC

\* Number of requests a behaviour issues.
MaxReq == 2
\* Largest value of the store's CURRENT_TIMESTAMP clock (seconds).
MaxClock == 1
\* Number of executions of part_004's initializeDatabase, and of worker
\* instances (isolates), each with its own dbInitialized.
MaxInit == 3
MaxInst == 2
\* Number of requests to one ChatSession object.
MaxDo == 3
MaxSend == 3
MaxCall == 2

Req == 1..MaxReq
Exec == 1..MaxInit
Inst == 1..MaxInst
DoReq == 1..MaxDo
Send == 1..MaxSend
Call == 1..MaxCall
Texts == {"", " ", "hi"}
Variants == {"server", "p000", "p004", "agent"}
HttpVariants == {"server", "p000", "p004"}

\* Request inputs.  "" stands for an empty or a missing field: the handlers
\* test both with the same falsy check (!message, !sessionId).
SessionIds == {"", "s1", "s2"}
Messages == {"", "hi"}
\* What the model may return as aiResponse.response / agentResponse.content.
Replies == {"", "ok"}
\* What a rejected model call may carry: an Error with a message, an Error
\* with an empty message, or a value that is no Error and has no message.
NotAnError == [isError |-> FALSE, message |-> ""]
Thrown == {[isError |-> TRUE, message |-> "AI unavailable"],
           [isError |-> TRUE, message |-> ""],
           NotAnError}
\* conversationHistory values a client may send.
Hints == {<<>>, <<[role |-> "user", content |-> "q"],
                  [role |-> "assistant", content |-> "old"]>>}

VARIABLES
    variant,    \* which implementation is deployed
    db,         \* table messages, rows in rowid order
    nextId,     \* next AUTOINCREMENT id
    clock,      \* the store's CURRENT_TIMESTAMP when it was last read
    agentState, \* ChatAgent: the persisted state.messages
    byRef,      \* ChatAgent: getState hands out the stored object itself
    request,    \* per request: method and path of the request line
    kind,       \* per request: which handler runs it
    pc,         \* per request: the await it is suspended at
    sid,        \* per request: sessionId
    msg,        \* per request: message
    hist,       \* per request: conversationHistory
    messages,   \* per request: the messages handed to the model call
    reply,      \* per request: content of the assistant message
    thrown,     \* per request: what the handler's catch caught
    status,     \* per request: HTTP status of the response (0: none yet)
    result,     \* per request: rows a history read returned / agent history
    local,      \* per request: ChatAgent.respond's local `state`
    issued,     \* ghost: number of INSERT statements the request ran
    stored,     \* ghost: roles of the rows the request's inserts committed
    cleared,    \* ghost: number of the request's rows a DELETE removed
    after,      \* ghost: ids of the session's rows when the request's SELECT or
                \*        DELETE had finished; for a chat request, while its
                \*        model call runs, when its messages were assembled
    outcome,    \* ghost: how the request ended
    phases,     \* ghost: the phases a chat request has entered, in order
    tableExists,   \* part_004: table messages exists
    dbInitialized, \* part_004, per instance: the module's flag
    initPc,        \* per execution of initializeDatabase: where it is
    initInst,      \* per execution: the instance it runs in
    initOutcome,   \* ghost, per execution: how it ended
    doStorage,  \* ChatSession: the value stored under 'messages' ([] if none)
    doGate,     \* ChatSession: the request whose storage operation is pending
    doKind,     \* per ChatSession request: the branch of fetch it takes
    doPc,       \* per ChatSession request: the await it is suspended at
    doLocal,    \* per ChatSession request: its local `messages`
    doStatus,   \* per ChatSession request: status of the response (0: none)
    doHeaders,  \* per ChatSession request: headers of the response
    doResult,   \* per ChatSession request: the list a GET returned
    doLastWrite,   \* ghost: the last write to the storage, put or delete
    doWiped,       \* ghost: posted messages a delete removed
    doReadAfter,   \* ghost, per GET: doLastWrite when it read
    doSeenDone,    \* ghost, per GET: the POSTs that had completed when it read
    inputValue,       \* page: text of the message input
    sendBtnDisabled,  \* page: the send button's disabled property
    inputDisabled,    \* page: the input's disabled property
    send,             \* per send of the page: state of its fetch of /api/chat
    sendVia,          \* ghost, per send: started by the button or by Enter
    toolFile,      \* per invocation of scheduleAudit: the file of the tool
    whenType,      \* per invocation: when.type
    hasAgent,      \* per invocation: getCurrentAgent() has an agent
    toolOutcome,   \* per invocation: scheduled, invalid or threw
    schedules      \* the calls of agent.schedule, in order

reqVars == <<request, kind, pc, sid, msg, hist, messages, reply, thrown, status, result,
             local>>
ghostVars == <<issued, stored, cleared, after, outcome, phases>>
storeVars == <<db, nextId>>
agentVars == <<agentState, byRef>>
initVars == <<tableExists, dbInitialized, initPc, initInst, initOutcome>>
doVars == <<doStorage, doGate, doKind, doPc, doLocal, doStatus, doHeaders, doResult,
           doLastWrite, doWiped, doReadAfter, doSeenDone>>
pageVars == <<inputValue, sendBtnDisabled, inputDisabled, send, sendVia>>
toolVars == <<toolFile, whenType, hasAgent, toolOutcome, schedules>>
otherVars == <<doVars, pageVars, toolVars>>
mainVars == <<variant, clock, storeVars, agentVars, reqVars, ghostVars, initVars>>
vars == <<mainVars, otherVars>>

-----------------------------------------------------------------------------
(* The store: table messages(id, session_id, role, content, timestamp).    *)

\* One row.  req is a ghost column: the request that inserted the row.
Row(id, s, role, content, ts, r) ==
    [id |-> id, session_id |-> s, role |-> role, content |-> content,
     timestamp |-> ts, req |-> r]

\* A faulty insert: the new row takes the place of the newest row.
InsertRowOverwrites(d, id, s, role, content, ts, r) ==
    IF d = <<>> THEN <<Row(id, s, role, content, ts, r)>>
    ELSE [d EXCEPT ![Len(d)] = Row(id, s, role, content, ts, r)]

\* INSERT INTO messages (session_id, role, content) VALUES (?, ?, ?):
\* id is the next AUTOINCREMENT value, timestamp defaults to CURRENT_TIMESTAMP.
InsertRow(d, id, s, role, content, ts, r) ==
    Append(d, Row(id, s, role, content, ts, r))

\* A faulty delete: the WHERE clause is missing.
DeleteRowsAll(d, s) == <<>>

\* DELETE FROM messages WHERE session_id = ?
DeleteRows(d, s) == SelectSeq(d, LAMBDA row : row.session_id # s)

\* ... FROM messages WHERE session_id = ?
SelectRows(d, s) == SelectSeq(d, LAMBDA row : row.session_id = s)

SeqToSet(q) == {q[i] : i \in DOMAIN q}

\* ids of the rows of session s.
Ids(d, s) == {row.id : row \in SeqToSet(SelectRows(d, s))}

\* Rows of a set with the least timestamp.
Earliest(S) == {x \in S : \A y \in S : x.timestamp <= y.timestamp}

\* ORDER BY timestamp ASC over a set of rows: every sequence of them with
\* non-decreasing timestamps.  The statement names no second sort key, so
\* SQL leaves the order of rows with equal timestamps undefined.
RECURSIVE OrderByTimestamp(_)
OrderByTimestamp(S) ==
    IF S = {} THEN {<<>>}
    ELSE UNION {{<<x>> \o rest : rest \in OrderByTimestamp(S \ {x})} :
                x \in Earliest(S)}

\* SELECT role, content, timestamp FROM messages WHERE session_id = ?
\* ORDER BY timestamp ASC: the results the statement may produce.
SelectOrdered(d, s) == OrderByTimestamp(SeqToSet(SelectRows(d, s)))

\* results.map(r => ({role, content, timestamp})): the response's messages.
MapResults(rows) ==
    [i \in DOMAIN rows |->
        [role |-> rows[i].role, content |-> rows[i].content,
         timestamp |-> rows[i].timestamp]]

-----------------------------------------------------------------------------
\* No request has reached the router.
NoRequests ==
    /\ request = [r \in Req |-> [method |-> "", path |-> ""]]
    /\ kind = [r \in Req |-> "none"]
    /\ pc = [r \in Req |-> "idle"]
    /\ sid = [r \in Req |-> ""]
    /\ msg = [r \in Req |-> ""]
    /\ hist = [r \in Req |-> <<>>]
    /\ messages = [r \in Req |-> <<>>]
    /\ reply = [r \in Req |-> ""]
    /\ thrown = [r \in Req |-> NotAnError]
    /\ status = [r \in Req |-> 0]
    /\ result = [r \in Req |-> <<>>]
    /\ local = [r \in Req |-> <<>>]
    /\ issued = [r \in Req |-> 0]
    /\ stored = [r \in Req |-> <<>>]
    /\ cleared = [r \in Req |-> 0]
    /\ after = [r \in Req |-> {}]
    /\ outcome = [r \in Req |-> "none"]
    /\ phases = [r \in Req |-> <<>>]

\* No execution of initializeDatabase has started.
NoExecutions ==
    /\ dbInitialized = [i \in Inst |-> FALSE]
    /\ initPc = [t \in Exec |-> "idle"]
    /\ initInst = [t \in Exec |-> 1]
    /\ initOutcome = [t \in Exec |-> "none"]

\* No request has reached the ChatSession object; it stores nothing.
NoSessionRequests ==
    /\ doStorage = <<>>
    /\ doGate = 0
    /\ doKind = [d \in DoReq |-> "none"]
    /\ doPc = [d \in DoReq |-> "idle"]
    /\ doLocal = [d \in DoReq |-> <<>>]
    /\ doStatus = [d \in DoReq |-> 0]
    /\ doHeaders = [d \in DoReq |-> {}]
    /\ doResult = [d \in DoReq |-> <<>>]
    /\ doLastWrite = "none"
    /\ doWiped = {}
    /\ doReadAfter = [d \in DoReq |-> "none"]
    /\ doSeenDone = [d \in DoReq |-> {}]

\* The page as loaded: empty input, controls enabled, nothing sent.
PageLoaded ==
    /\ inputValue = ""
    /\ sendBtnDisabled = FALSE
    /\ inputDisabled = FALSE
    /\ send = [k \in Send |-> "none"]
    /\ sendVia = [k \in Send |-> "none"]

\* The scheduleAudit tool has not been invoked.
NoInvocations ==
    /\ toolFile = [c \in Call |-> "none"]
    /\ whenType = [c \in Call |-> "none"]
    /\ hasAgent = [c \in Call |-> FALSE]
    /\ toolOutcome = [c \in Call |-> "none"]
    /\ schedules = <<>>

\* The parts of the repository beside the router, before anything happens
\* in them.
Elsewhere == NoSessionRequests /\ PageLoaded /\ NoInvocations

Init ==
    /\ variant \in Variants
    /\ db = <<>>
    /\ nextId = 1
    /\ clock = 0
    /\ agentState = <<>>
    /\ byRef \in (IF variant = "agent" THEN BOOLEAN ELSE {FALSE})
    /\ NoRequests
    /\ tableExists = TRUE
    /\ NoExecutions
    /\ Elsewhere

\* Requests are numbered in the order they arrive.
Arrives(r) == pc[r] = "idle" /\ (IF r = 1 THEN TRUE ELSE pc[r - 1] # "idle")

\* The handler returns its response.
Respond(r, code, how) ==
    /\ pc' = [pc EXCEPT ![r] = "done"]
    /\ status' = [status EXCEPT ![r] = code]
    /\ outcome' = [outcome EXCEPT ![r] = how]

\* CURRENT_TIMESTAMP when a statement runs: the store's clock does not run
\* backwards.  Statements read the same second as the statement before or a
\* later one; only the order and the equality of timestamps are ever
\* observed, so a later second is taken to be the next one.
CurrentTimestamp(last) == {t \in {last, last + 1} : t <= MaxClock}

-----------------------------------------------------------------------------
(* The router: Server.handleRequest and the fetch of the workers.          *)

Methods == {"OPTIONS", "GET", "POST", "DELETE", "PUT"}
Paths == {"/api/chat", "/api/history", "/health", "/", "/nope", "/chat"}

\* A router that serves the page for every path it does not know.
RouteFallsBackToFrontend(v, method, path) ==
    IF v = "agent"
    THEN IF path = "/chat" /\ method = "POST" THEN "agent" ELSE "frontend"
    ELSE IF method = "OPTIONS" THEN "options"
    ELSE IF path = "/api/chat" /\ method = "POST" THEN "chat"
    ELSE IF path = "/api/history" /\ method = "GET" THEN "history"
    ELSE IF path = "/api/history" /\ method = "DELETE" THEN "delete"
    ELSE IF v = "server" /\ path = "/health" THEN "health"
    ELSE "frontend"

\* The branch of the router a request takes.  Only Server has /health; the
\* Chat object (variant "agent") knows POST /chat and has no preflight.
Route(v, method, path) ==
    IF v = "agent"
    THEN IF path = "/chat" /\ method = "POST" THEN "agent" ELSE "notFound"
    ELSE IF method = "OPTIONS" THEN "options"
    ELSE IF path = "/api/chat" /\ method = "POST" THEN "chat"
    ELSE IF path = "/api/history" /\ method = "GET" THEN "history"
    ELSE IF path = "/api/history" /\ method = "DELETE" THEN "delete"
    ELSE IF v = "server" /\ path = "/health" THEN "health"
    ELSE IF path = "/" THEN "frontend"
    ELSE "notFound"

\* Access-Control-Allow-Methods of corsHeaders, which the preflight response
\* carries.
AllowMethods(v) ==
    IF v = "server" THEN {"GET", "POST", "DELETE", "OPTIONS"}
    ELSE {"GET", "POST", "OPTIONS"}

\* Status of the responses the router builds itself.  Server's preflight
\* response is new Response(null, {headers}), whose status is 200.
RouteStatus(v, route) ==
    CASE route = "options" -> IF v = "server" THEN 200 ELSE 204
      [] route = "notFound" -> 404
      [] OTHER -> 200

\* A request the router answers without calling a handler of the store.
HandleRequest(r, method, path) ==
    /\ Arrives(r)
    /\ Route(variant, method, path) \in {"options", "health", "frontend", "notFound"}
    /\ request' = [request EXCEPT ![r] = [method |-> method, path |-> path]]
    /\ kind' = [kind EXCEPT ![r] = Route(variant, method, path)]
    /\ Respond(r, RouteStatus(variant, Route(variant, method, path)),
               Route(variant, method, path))
    /\ UNCHANGED <<variant, otherVars, initVars, storeVars, clock, agentVars, sid, msg, hist, messages,
                   reply, thrown, result, local, issued, stored, cleared, after,
                   phases>>

\* The requests of this kind a behaviour issues.
OtherRequests ==
    {<<"OPTIONS", "/api/chat">>, <<"GET", "/health">>, <<"GET", "/">>,
     <<"GET", "/nope">>}

-----------------------------------------------------------------------------
(* POST /api/chat: handleChat.                                             *)

\* if (!message || !sessionId)
MissingFields(message, sessionId) == message = "" \/ sessionId = ""

\* A faulty assembly: the new user message is put in front of the history.
AssembleMessagesUserFirst(h, m) ==
    <<[role |-> "user", content |-> m]>>
        \o [i \in DOMAIN h |-> [role |-> h[i].role, content |-> h[i].content]]

\* messages = conversationHistory.map({role, content}) + {role: 'user', content: message}
AssembleMessages(h, m) ==
    [i \in DOMAIN h |-> [role |-> h[i].role, content |-> h[i].content]]
        \o <<[role |-> "user", content |-> m]>>

\* What createAgent(env).processMessage(...) may do with its input: resolve
\* with one assistant turn or reject.
processMessage(input) ==
    {[ok |-> TRUE, content |-> c] : c \in Replies}
        \cup {[ok |-> FALSE, error |-> e] : e \in Thrown}

\* What env.AI.run(model, {messages, ...}) may do: resolve with a response or
\* reject.
AIRun(input) ==
    {[ok |-> TRUE, content |-> c] : c \in Replies}
        \cup {[ok |-> FALSE, error |-> e] : e \in Thrown}

\* The model call of the deployed variant.
ModelCall(v, input) == IF v = "server" THEN processMessage(input) ELSE AIRun(input)

\* content of assistantMessage: agentResponse.content in Server,
\* aiResponse.response || 'No response generated' in the workers.
AssistantContent(v, raw) ==
    IF v = "server" THEN raw
    ELSE IF raw = "" THEN "No response generated" ELSE raw

\* A response that hides what the model call threw.
ErrorMessageGeneric(v, e) == "Internal server error"

\* error of the 500 body: error instanceof Error ? error.message :
\* 'Unknown error' in Server, error.message || 'Internal server error' in the
\* workers.
ErrorMessage(v, e) ==
    IF v = "server"
    THEN IF e.isError THEN e.message ELSE "Unknown error"
    ELSE IF e.message = "" THEN "Internal server error" ELSE e.message

\* The SyntaxError of a body that is not JSON.
BadJsonError == [isError |-> TRUE, message |-> "Unexpected token"]

\* The JSON body of the response to a finished chat request.
ChatResponse(r) ==
    CASE outcome[r] = "replied" ->
            [success |-> TRUE, content |-> reply[r], error |-> ""]
      [] outcome[r] = "invalid" ->
            [success |-> FALSE, content |-> "",
             error |-> IF variant = "p000"
                       THEN "Missing required fields: message and sessionId are required"
                       ELSE "Missing required fields"]
      [] OTHER ->
            [success |-> FALSE, content |-> "",
             error |-> ErrorMessage(variant, thrown[r])]

\* A handler that reads the body outside its try: the SyntaxError of a body
\* that is no JSON escapes and the request gets no response.
ChatBadJsonEscapes(r) ==
    /\ variant \in HttpVariants
    /\ Arrives(r)
    /\ Route(variant, "POST", "/api/chat") = "chat"
    /\ kind' = [kind EXCEPT ![r] = "chat"]
    /\ request' = [request EXCEPT ![r] = [method |-> "POST", path |-> "/api/chat"]]
    /\ thrown' = [thrown EXCEPT ![r] = BadJsonError]
    /\ phases' = [phases EXCEPT ![r] = <<"Validating", "Failed">>]
    /\ pc' = [pc EXCEPT ![r] = "escaped"]
    /\ outcome' = [outcome EXCEPT ![r] = "badJson"]
    /\ UNCHANGED <<variant, otherVars, initVars, storeVars, clock, agentVars, sid, msg, hist, messages, reply,
                   result, local, issued, stored, cleared, after, status>>

\* request.json() rejects: the handler's catch answers 500.
ChatBadJson(r) ==
    /\ variant \in HttpVariants
    /\ Arrives(r)
    /\ Route(variant, "POST", "/api/chat") = "chat"
    /\ kind' = [kind EXCEPT ![r] = "chat"]
    /\ request' = [request EXCEPT ![r] = [method |-> "POST", path |-> "/api/chat"]]
    /\ thrown' = [thrown EXCEPT ![r] = BadJsonError]
    /\ phases' = [phases EXCEPT ![r] = <<"Validating", "Failed">>]
    /\ Respond(r, 500, "badJson")
    /\ UNCHANGED <<variant, otherVars, initVars, storeVars, clock, agentVars, sid, msg, hist, messages, reply,
                   result, local, issued, stored, cleared, after>>

\* A faulty handler: the user turn is saved before the model is called.
HandleChatSavesUserFirst(r, m, s, h) ==
    /\ variant \in HttpVariants
    /\ Arrives(r)
    /\ Route(variant, "POST", "/api/chat") = "chat"
    /\ kind' = [kind EXCEPT ![r] = "chat"]
    /\ request' = [request EXCEPT ![r] = [method |-> "POST", path |-> "/api/chat"]]
    /\ sid' = [sid EXCEPT ![r] = s]
    /\ msg' = [msg EXCEPT ![r] = m]
    /\ IF MissingFields(m, s)
       THEN /\ Respond(r, 400, "invalid")
            /\ phases' = [phases EXCEPT ![r] = <<"Validating", "Failed">>]
            /\ UNCHANGED <<hist, messages, after, storeVars, issued, stored>>
       ELSE /\ pc' = [pc EXCEPT ![r] = "infer"]
            /\ phases' = [phases EXCEPT ![r] = <<"Validating", "Assembling", "Inferring">>]
            /\ hist' = [hist EXCEPT ![r] = h]
            /\ messages' = [messages EXCEPT ![r] = AssembleMessages(h, m)]
            /\ after' = [after EXCEPT ![r] = Ids(db, s)]
            /\ db' = Append(db, Row(nextId, s, "user", m, clock, r))
            /\ nextId' = nextId + 1
            /\ issued' = [issued EXCEPT ![r] = @ + 1]
            /\ stored' = [stored EXCEPT ![r] = Append(@, "user")]
            /\ UNCHANGED <<status, outcome>>
    /\ UNCHANGED <<variant, otherVars, initVars, thrown, clock, agentVars, reply, result, local, cleared>>

\* Body parsed and validated; the messages for the model are assembled from
\* conversationHistory and message, and the model call is started.
HandleChat(r, m, s, h) ==
    /\ variant \in HttpVariants
    /\ Arrives(r)
    /\ Route(variant, "POST", "/api/chat") = "chat"
    /\ kind' = [kind EXCEPT ![r] = "chat"]
    /\ request' = [request EXCEPT ![r] = [method |-> "POST", path |-> "/api/chat"]]
    /\ sid' = [sid EXCEPT ![r] = s]
    /\ msg' = [msg EXCEPT ![r] = m]
    /\ IF MissingFields(m, s)
       THEN /\ Respond(r, 400, "invalid")
            /\ phases' = [phases EXCEPT ![r] = <<"Validating", "Failed">>]
            /\ UNCHANGED <<hist, messages, after>>
       ELSE /\ pc' = [pc EXCEPT ![r] = "infer"]
            /\ phases' = [phases EXCEPT ![r] = <<"Validating", "Assembling", "Inferring">>]
            /\ hist' = [hist EXCEPT ![r] = h]
            /\ messages' = [messages EXCEPT ![r] = AssembleMessages(h, m)]
            /\ after' = [after EXCEPT ![r] = Ids(db, s)]
            /\ UNCHANGED <<status, outcome>>
    /\ UNCHANGED <<variant, otherVars, initVars, thrown, storeVars, clock, agentVars, reply, result, local,
                   issued, stored, cleared>>

\* The model call resolves: assistantMessage is built, the user insert is next.
\* conversationHistory and messages are not read again.
ModelReturns(r, res) ==
    /\ pc[r] = "infer"
    /\ res \in ModelCall(variant, messages[r])
    /\ res.ok
    /\ reply' = [reply EXCEPT ![r] = AssistantContent(variant, res.content)]
    /\ hist' = [hist EXCEPT ![r] = <<>>]
    /\ messages' = [messages EXCEPT ![r] = <<>>]
    /\ after' = [after EXCEPT ![r] = {}]
    /\ pc' = [pc EXCEPT ![r] = "saveUser"]
    /\ phases' = [phases EXCEPT ![r] = Append(@, "Persisting")]
    /\ UNCHANGED <<variant, otherVars, initVars, request, thrown, storeVars, clock, agentVars, kind, sid, msg, status,
                   result, local, issued, stored, cleared, outcome>>

\* The model call rejects: the handler's catch answers 500.
ModelFails(r) ==
    /\ pc[r] = "infer"
    /\ \E res \in ModelCall(variant, messages[r]) :
          ~res.ok /\ thrown' = [thrown EXCEPT ![r] = res.error]
    /\ hist' = [hist EXCEPT ![r] = <<>>]
    /\ messages' = [messages EXCEPT ![r] = <<>>]
    /\ after' = [after EXCEPT ![r] = {}]
    /\ Respond(r, 500, "modelError")
    /\ phases' = [phases EXCEPT ![r] = Append(@, "Failed")]
    /\ UNCHANGED <<variant, otherVars, initVars, request, storeVars, clock, agentVars, kind, sid, msg, reply,
                   result, local, issued, stored, cleared>>

\* One INSERT of request r runs and commits.
RunInsert(r, role, content) ==
    /\ \E now \in CurrentTimestamp(clock) :
          /\ clock' = now
          /\ db' = InsertRow(db, nextId, sid[r], role, content, now, r)
    /\ nextId' = nextId + 1
    /\ issued' = [issued EXCEPT ![r] = @ + 1]
    /\ stored' = [stored EXCEPT ![r] = Append(@, role)]

\* One INSERT of request r throws.
FailInsert(r) ==
    /\ issued' = [issued EXCEPT ![r] = @ + 1]
    /\ UNCHANGED <<storeVars, clock, stored>>

\* INSERT (sessionId, 'user', message) commits.
InsertUser(r) ==
    /\ pc[r] = "saveUser"
    /\ RunInsert(r, "user", msg[r])
    /\ pc' = [pc EXCEPT ![r] = "saveAsst"]
    /\ UNCHANGED <<variant, otherVars, initVars, request, phases, thrown, agentVars, kind, sid, msg, hist, messages, reply, status,
                   result, local, cleared, after, outcome>>

\* A faulty handler: the failed user insert reaches the handler's catch.
InsertUserFailsPropagates(r) ==
    /\ pc[r] = "saveUser"
    /\ FailInsert(r)
    /\ thrown' = [thrown EXCEPT ![r] = [isError |-> TRUE, message |-> "D1_ERROR"]]
    /\ Respond(r, 500, "storeError")
    /\ phases' = [phases EXCEPT ![r] = Append(@, "Failed")]
    /\ UNCHANGED <<variant, otherVars, initVars, request, agentVars, kind, sid, msg, hist, messages, reply, result,
                   local, cleared, after>>

\* INSERT (sessionId, 'user', message) throws.  Server.saveMessage catches it
\* and handleChat goes on to the assistant insert; in the workers the throw
\* leaves the try block that holds both inserts.
InsertUserFails(r) ==
    /\ pc[r] = "saveUser"
    /\ FailInsert(r)
    /\ IF variant = "server"
       THEN /\ pc' = [pc EXCEPT ![r] = "saveAsst"]
            /\ UNCHANGED <<status, outcome, phases>>
       ELSE /\ Respond(r, 200, "replied")
            /\ phases' = [phases EXCEPT ![r] = Append(@, "Done")]
    /\ UNCHANGED <<variant, otherVars, initVars, request, thrown, agentVars, kind, sid, msg, hist, messages, reply, result,
                   local, cleared, after>>

\* INSERT (sessionId, 'assistant', content) commits; the reply is returned.
InsertAssistant(r) ==
    /\ pc[r] = "saveAsst"
    /\ RunInsert(r, "assistant", reply[r])
    /\ Respond(r, 200, "replied")
    /\ phases' = [phases EXCEPT ![r] = Append(@, "Done")]
    /\ UNCHANGED <<variant, otherVars, initVars, request, thrown, agentVars, kind, sid, msg, hist, messages, reply, result,
                   local, cleared, after>>

\* A faulty handler: the failed assistant insert reaches the handler's catch.
InsertAssistantFailsPropagates(r) ==
    /\ pc[r] = "saveAsst"
    /\ FailInsert(r)
    /\ thrown' = [thrown EXCEPT ![r] = [isError |-> TRUE, message |-> "D1_ERROR"]]
    /\ Respond(r, 500, "storeError")
    /\ phases' = [phases EXCEPT ![r] = Append(@, "Failed")]
    /\ UNCHANGED <<variant, otherVars, initVars, request, agentVars, kind, sid, msg, hist, messages, reply, result,
                   local, cleared, after>>

\* INSERT (sessionId, 'assistant', content) throws; the reply is returned.
InsertAssistantFails(r) ==
    /\ pc[r] = "saveAsst"
    /\ FailInsert(r)
    /\ Respond(r, 200, "replied")
    /\ phases' = [phases EXCEPT ![r] = Append(@, "Done")]
    /\ UNCHANGED <<variant, otherVars, initVars, request, thrown, agentVars, kind, sid, msg, hist, messages, reply, result,
                   local, cleared, after>>

-----------------------------------------------------------------------------
(* GET /api/history: handleGetHistory.                                     *)

\* A handler without the sessionId test: the SELECT is issued for any value.
HandleGetHistoryUnchecked(r, s) ==
    /\ variant \in HttpVariants
    /\ Arrives(r)
    /\ Route(variant, "GET", "/api/history") = "history"
    /\ kind' = [kind EXCEPT ![r] = "history"]
    /\ request' = [request EXCEPT ![r] = [method |-> "GET", path |-> "/api/history"]]
    /\ sid' = [sid EXCEPT ![r] = s]
    /\ pc' = [pc EXCEPT ![r] = "select"]
    /\ UNCHANGED <<status, outcome>>
    /\ UNCHANGED <<variant, otherVars, initVars, phases, thrown, storeVars, clock, agentVars, msg, hist, messages, reply, result,
                   local, issued, stored, cleared, after>>

HandleGetHistory(r, s) ==
    /\ variant \in HttpVariants
    /\ Arrives(r)
    /\ Route(variant, "GET", "/api/history") = "history"
    /\ kind' = [kind EXCEPT ![r] = "history"]
    /\ request' = [request EXCEPT ![r] = [method |-> "GET", path |-> "/api/history"]]
    /\ sid' = [sid EXCEPT ![r] = s]
    /\ IF s = ""
       THEN Respond(r, 400, "invalid")
       ELSE /\ pc' = [pc EXCEPT ![r] = "select"]
            /\ UNCHANGED <<status, outcome>>
    /\ UNCHANGED <<variant, otherVars, initVars, phases, thrown, storeVars, clock, agentVars, msg, hist, messages, reply, result,
                   local, issued, stored, cleared, after>>

\* A faulty read: the SELECT also removes the rows it returns.
SelectReturnsConsuming(r) ==
    /\ pc[r] = "select"
    /\ \E rows \in SelectOrdered(db, sid[r]) : result' = [result EXCEPT ![r] = rows]
    /\ after' = [after EXCEPT ![r] = Ids(db, sid[r])]
    /\ db' = DeleteRows(db, sid[r])
    /\ Respond(r, 200, "listed")
    /\ UNCHANGED <<variant, otherVars, initVars, request, phases, nextId, clock, agentVars, kind, sid, msg,
                   hist, messages, reply, thrown, local, issued, stored, cleared>>

\* The SELECT returns its rows.
SelectReturns(r) ==
    /\ pc[r] = "select"
    /\ \E rows \in SelectOrdered(db, sid[r]) : result' = [result EXCEPT ![r] = rows]
    /\ after' = [after EXCEPT ![r] = Ids(db, sid[r])]
    /\ Respond(r, 200, "listed")
    /\ UNCHANGED <<variant, otherVars, initVars, request, phases, thrown, storeVars, clock, agentVars, kind, sid, msg, hist, messages,
                   reply, local, issued, stored, cleared>>

\* The SELECT throws.  Server.getMessages and part_000 catch it and answer
\* with no messages; part_004 answers 500.
SelectFails(r) ==
    /\ pc[r] = "select"
    /\ IF variant = "p004"
       THEN Respond(r, 500, "storeError")
       ELSE Respond(r, 200, "readFailed")
    /\ after' = [after EXCEPT ![r] = Ids(db, sid[r])]
    /\ UNCHANGED <<variant, otherVars, initVars, request, phases, thrown, storeVars, clock, agentVars, kind, sid, msg, hist, messages,
                   reply, result, local, issued, stored, cleared>>

-----------------------------------------------------------------------------
(* DELETE /api/history: handleDeleteHistory.                               *)

HandleDeleteHistory(r, s) ==
    /\ variant \in HttpVariants
    /\ Arrives(r)
    /\ Route(variant, "DELETE", "/api/history") = "delete"
    /\ kind' = [kind EXCEPT ![r] = "delete"]
    /\ request' = [request EXCEPT ![r] = [method |-> "DELETE", path |-> "/api/history"]]
    /\ sid' = [sid EXCEPT ![r] = s]
    /\ IF s = ""
       THEN Respond(r, 400, "invalid")
       ELSE /\ pc' = [pc EXCEPT ![r] = "delete"]
            /\ UNCHANGED <<status, outcome>>
    /\ UNCHANGED <<variant, otherVars, initVars, phases, thrown, storeVars, clock, agentVars, msg, hist, messages, reply, result,
                   local, issued, stored, cleared, after>>

\* Number of rows of d that request q inserted for session s.
RowsOfIn(d, q, s) ==
    Cardinality({i \in DOMAIN d : d[i].req = q /\ d[i].session_id = s})

\* The DELETE runs.
DeleteRuns(r) ==
    /\ pc[r] = "delete"
    /\ db' = DeleteRows(db, sid[r])
    /\ cleared' = [q \in Req |-> cleared[q] + RowsOfIn(db, q, sid[r])]
    /\ after' = [after EXCEPT ![r] = Ids(db', sid[r])]
    /\ Respond(r, 200, "cleared")
    /\ UNCHANGED <<variant, otherVars, initVars, request, phases, thrown, nextId, clock, agentVars, kind, sid, msg, hist, messages, reply,
                   result, local, issued, stored>>

\* The DELETE throws.  part_000 catches it and still answers success; Server
\* and part_004 answer 500.
DeleteFails(r) ==
    /\ pc[r] = "delete"
    /\ IF variant = "p000"
       THEN Respond(r, 200, "clearFailed")
       ELSE Respond(r, 500, "storeError")
    /\ after' = [after EXCEPT ![r] = Ids(db, sid[r])]
    /\ UNCHANGED <<variant, otherVars, initVars, request, phases, thrown, storeVars, clock, agentVars, kind, sid, msg, hist, messages,
                   reply, result, local, issued, stored, cleared>>

-----------------------------------------------------------------------------
(* POST /chat of the Chat durable object: ChatAgent.respond.               *)

\* reply = `WebPerfCoach here! You said: "${message}".`
EchoReply(m) == IF m = "" THEN "You said: \"\"." ELSE "You said: \"hi\"."

\* state.messages after the two pushes of respond.
PushTurns(turns, m) ==
    turns \o <<[role |-> "user", content |-> m],
                  [role |-> "assistant", content |-> EchoReply(m)]>>

\* fetch reads body.message and calls respond, which awaits getState().
AgentRespond(r, m) ==
    /\ variant = "agent"
    /\ Arrives(r)
    /\ Route(variant, "POST", "/chat") = "agent"
    /\ kind' = [kind EXCEPT ![r] = "agent"]
    /\ request' = [request EXCEPT ![r] = [method |-> "POST", path |-> "/chat"]]
    /\ msg' = [msg EXCEPT ![r] = m]
    /\ pc' = [pc EXCEPT ![r] = "getState"]
    /\ UNCHANGED <<variant, otherVars, initVars, thrown, storeVars, clock, agentVars, sid, hist, messages, reply, status,
                   result, local, ghostVars>>

\* getState() resolves; both turns are pushed onto the state it returned and
\* setState(state) is awaited.  When getState hands out the stored object
\* the pushes change the stored messages at once.
AgentGetState(r) ==
    /\ pc[r] = "getState"
    /\ reply' = [reply EXCEPT ![r] = EchoReply(msg[r])]
    /\ IF byRef
       THEN /\ agentState' = PushTurns(agentState, msg[r])
            /\ UNCHANGED local
       ELSE /\ local' = [local EXCEPT ![r] = PushTurns(agentState, msg[r])]
            /\ UNCHANGED agentState
    /\ stored' = [stored EXCEPT ![r] = <<"user", "assistant">>]
    /\ pc' = [pc EXCEPT ![r] = "setState"]
    /\ UNCHANGED <<variant, otherVars, initVars, request, phases, thrown, storeVars, clock, byRef, kind, sid, msg, hist, messages, status,
                   result, issued, cleared, after, outcome>>

\* setState(state) resolves; respond returns {reply, history: state.messages}.
AgentSetState(r) ==
    /\ pc[r] = "setState"
    /\ agentState' = IF byRef THEN agentState ELSE local[r]
    /\ result' = [result EXCEPT ![r] = IF byRef THEN agentState ELSE local[r]]
    /\ local' = [local EXCEPT ![r] = <<>>]
    /\ Respond(r, 200, "replied")
    /\ UNCHANGED <<variant, otherVars, initVars, request, phases, thrown, storeVars, clock, byRef, kind, sid, msg, hist, messages, reply,
                   issued, stored, cleared, after>>

-----------------------------------------------------------------------------
(* part_004: initializeDatabase, called by fetch through ctx.waitUntil and *)
(* by the handlers through ensureDatabaseInitialized.                      *)

\* A faulty statement: CREATE TABLE messages without IF NOT EXISTS.
CreateTable(exists, rows) ==
    IF exists THEN [ok |-> FALSE, exists |-> TRUE, rows |-> rows]
    ELSE [ok |-> TRUE, exists |-> TRUE, rows |-> <<>>]

\* CREATE TABLE IF NOT EXISTS messages (...): creates the empty table when
\* there is none, and is a no-op on an existing table.
CreateTableIfNotExists(exists, rows) ==
    [ok |-> TRUE, exists |-> TRUE, rows |-> IF exists THEN rows ELSE <<>>]

\* Turns stored before the executions start.
PriorRows ==
    <<Row(1, "s1", "user", "hi", 0, 1), Row(2, "s1", "assistant", "ok", 0, 1)>>

\* The state the executions start in: no request in flight, the table
\* absent, or present with the turns stored earlier.
InitRace ==
    /\ variant = "p004"
    /\ tableExists \in BOOLEAN
    /\ db = (IF tableExists THEN PriorRows ELSE <<>>)
    /\ nextId = Len(db) + 1
    /\ clock = 0
    /\ agentState = <<>>
    /\ byRef = FALSE
    /\ NoRequests
    /\ NoExecutions
    /\ Elsewhere

\* Execution t of initializeDatabase starts in instance i:
\* if (dbInitialized) return; otherwise the CREATE statement is awaited.
InitializeDatabase(t, i) ==
    /\ initPc[t] = "idle"
    /\ initInst' = [initInst EXCEPT ![t] = i]
    /\ IF dbInitialized[i]
       THEN /\ initPc' = [initPc EXCEPT ![t] = "done"]
            /\ initOutcome' = [initOutcome EXCEPT ![t] = "skipped"]
       ELSE /\ initPc' = [initPc EXCEPT ![t] = "creating"]
            /\ UNCHANGED initOutcome
    /\ UNCHANGED <<variant, otherVars, clock, storeVars, agentVars, reqVars, ghostVars,
                   tableExists, dbInitialized>>

\* The CREATE statement of execution t runs.  When it succeeds the flag of
\* the instance is set; when it throws the catch logs the error.
CreateRuns(t) ==
    /\ initPc[t] = "creating"
    /\ LET res == CreateTableIfNotExists(tableExists, db) IN
          /\ tableExists' = res.exists
          /\ db' = res.rows
          /\ IF res.ok
             THEN /\ dbInitialized' = [dbInitialized EXCEPT ![initInst[t]] = TRUE]
                  /\ initOutcome' = [initOutcome EXCEPT ![t] = "created"]
             ELSE /\ initOutcome' = [initOutcome EXCEPT ![t] = "sqlError"]
                  /\ UNCHANGED dbInitialized
    /\ initPc' = [initPc EXCEPT ![t] = "done"]
    /\ UNCHANGED <<variant, otherVars, clock, nextId, agentVars, reqVars, ghostVars, initInst>>

\* A faulty catch: the flag is set although the statement failed.
CreateFailsSetsFlag(t) ==
    /\ initPc[t] = "creating"
    /\ initPc' = [initPc EXCEPT ![t] = "done"]
    /\ initOutcome' = [initOutcome EXCEPT ![t] = "storeError"]
    /\ dbInitialized' = [dbInitialized EXCEPT ![initInst[t]] = TRUE]
    /\ UNCHANGED <<variant, otherVars, clock, storeVars, agentVars, reqVars, ghostVars,
                   tableExists, initInst>>

\* The store fails the CREATE statement of execution t; the catch logs it.
CreateFails(t) ==
    /\ initPc[t] = "creating"
    /\ initPc' = [initPc EXCEPT ![t] = "done"]
    /\ initOutcome' = [initOutcome EXCEPT ![t] = "storeError"]
    /\ UNCHANGED <<variant, otherVars, clock, storeVars, agentVars, reqVars, ghostVars,
                   tableExists, dbInitialized, initInst>>

NextInit ==
    \/ \E t \in Exec, i \in Inst : InitializeDatabase(t, i)
    \/ \E t \in Exec : CreateRuns(t)
    \/ \E t \in Exec : CreateFails(t)

SpecInit == InitRace /\ [][NextInit]_vars

-----------------------------------------------------------------------------
(* part_004: the ChatSession durable object.  A storage operation closes   *)
(* the object's input gate: until it completes, no other event (a new      *)
(* request, a body that has been read) is delivered to the object.         *)

\* The main parts at rest, for the specifications of the other parts.
AtRest(v) ==
    /\ variant = v
    /\ db = <<>>
    /\ nextId = 1
    /\ clock = 0
    /\ agentState = <<>>
    /\ byRef = FALSE
    /\ NoRequests
    /\ tableExists = TRUE
    /\ NoExecutions

\* Headers of the responses ChatSession.fetch builds with corsHeaders, and of
\* new Response('Not Found', {status: 404}).
SessionCorsHeaders ==
    {<<"Access-Control-Allow-Origin", "*">>, <<"Content-Type", "application/json">>}
PlainTextHeaders == {<<"Content-Type", "text/plain;charset=UTF-8">>}

\* Requests are numbered in the order they reach the object.
DoArrives(d) == doPc[d] = "idle" /\ (IF d = 1 THEN TRUE ELSE doPc[d - 1] # "idle")

\* An object without input gates: events are delivered at any time.
NoInputGate(d) == TRUE

\* An event of request d can be delivered: no storage operation of another
\* request is pending.
InputGateOpen(d) == doGate \in {0, d}

DoRespond(d, code, headers) ==
    /\ doPc' = [doPc EXCEPT ![d] = "done"]
    /\ doStatus' = [doStatus EXCEPT ![d] = code]
    /\ doHeaders' = [doHeaders EXCEPT ![d] = headers]

\* GET /messages: storage.get('messages') is awaited.
DoGet(d) ==
    /\ DoArrives(d) /\ InputGateOpen(d)
    /\ doKind' = [doKind EXCEPT ![d] = "get"]
    /\ doPc' = [doPc EXCEPT ![d] = "get"]
    /\ doGate' = d
    /\ UNCHANGED <<mainVars, pageVars, toolVars, doStorage, doLocal, doStatus, doHeaders, doResult,
                   doLastWrite, doWiped, doReadAfter, doSeenDone>>

\* POST /messages: request.json() is awaited.
DoPost(d) ==
    /\ DoArrives(d) /\ InputGateOpen(d)
    /\ doKind' = [doKind EXCEPT ![d] = "post"]
    /\ doPc' = [doPc EXCEPT ![d] = "json"]
    /\ UNCHANGED <<mainVars, pageVars, toolVars, doStorage, doGate, doLocal, doStatus, doHeaders, doResult,
                   doLastWrite, doWiped, doReadAfter, doSeenDone>>

\* The body has been read; storage.get('messages') is awaited.
DoJsonParsed(d) ==
    /\ doPc[d] = "json" /\ InputGateOpen(d)
    /\ doPc' = [doPc EXCEPT ![d] = "get"]
    /\ doGate' = d
    /\ UNCHANGED <<mainVars, pageVars, toolVars, doStorage, doKind, doLocal, doStatus, doHeaders, doResult,
                   doLastWrite, doWiped, doReadAfter, doSeenDone>>

\* storage.get resolves.  GET answers with the list; POST pushes body.message
\* (the message of request d is written d) and awaits storage.put.
DoGetReturns(d) ==
    /\ doPc[d] = "get"
    /\ IF doKind[d] = "get"
       THEN /\ doResult' = [doResult EXCEPT ![d] = doStorage]
            /\ doReadAfter' = [doReadAfter EXCEPT ![d] = doLastWrite]
            /\ doSeenDone' = [doSeenDone EXCEPT ![d] =
                  {p \in DoReq : doKind[p] = "post" /\ doPc[p] = "done"} \ doWiped]
            /\ doGate' = 0
            /\ DoRespond(d, 200, SessionCorsHeaders)
            /\ UNCHANGED doLocal
       ELSE /\ doLocal' = [doLocal EXCEPT ![d] = Append(doStorage, d)]
            /\ doPc' = [doPc EXCEPT ![d] = "put"]
            /\ doGate' = d
            /\ UNCHANGED <<doStatus, doHeaders, doResult, doReadAfter, doSeenDone>>
    /\ UNCHANGED <<mainVars, pageVars, toolVars, doStorage, doKind, doLastWrite, doWiped>>

\* storage.put('messages', messages) resolves; POST answers {success: true}.
DoPutReturns(d) ==
    /\ doPc[d] = "put"
    /\ doStorage' = doLocal[d]
    /\ doLastWrite' = "put"
    /\ doGate' = 0
    /\ DoRespond(d, 200, SessionCorsHeaders)
    /\ UNCHANGED <<mainVars, pageVars, toolVars, doKind, doLocal, doResult, doWiped, doReadAfter,
                   doSeenDone>>

\* DELETE /messages: storage.delete('messages') is awaited.
DoDelete(d) ==
    /\ DoArrives(d) /\ InputGateOpen(d)
    /\ doKind' = [doKind EXCEPT ![d] = "delete"]
    /\ doPc' = [doPc EXCEPT ![d] = "delete"]
    /\ doGate' = d
    /\ UNCHANGED <<mainVars, pageVars, toolVars, doStorage, doLocal, doStatus, doHeaders, doResult,
                   doLastWrite, doWiped, doReadAfter, doSeenDone>>

\* storage.delete resolves; DELETE answers {success: true}.
DoDeleteReturns(d) ==
    /\ doPc[d] = "delete"
    /\ doStorage' = <<>>
    /\ doLastWrite' = "delete"
    /\ doWiped' = doWiped \cup SeqToSet(doStorage)
    /\ doGate' = 0
    /\ DoRespond(d, 200, SessionCorsHeaders)
    /\ UNCHANGED <<mainVars, pageVars, toolVars, doKind, doLocal, doResult, doReadAfter, doSeenDone>>

\* Any other method or path: new Response('Not Found', {status: 404}).
DoNotFound(d) ==
    /\ DoArrives(d) /\ InputGateOpen(d)
    /\ doKind' = [doKind EXCEPT ![d] = "notFound"]
    /\ DoRespond(d, 404, PlainTextHeaders)
    /\ UNCHANGED <<mainVars, pageVars, toolVars, doStorage, doGate, doLocal, doResult, doLastWrite,
                   doWiped, doReadAfter, doSeenDone>>

\* The router alone, over turns stored earlier: every request line reaches
\* it, and the ones that call no handler are followed to their response.
InitRouter ==
    /\ variant \in Variants
    /\ db = (IF variant = "agent" THEN <<>> ELSE PriorRows)
    /\ nextId = Len(db) + 1
    /\ clock = 0
    /\ agentState = (IF variant = "agent" THEN PushTurns(<<>>, "hi") ELSE <<>>)
    /\ byRef = FALSE
    /\ NoRequests
    /\ tableExists = TRUE
    /\ NoExecutions
    /\ Elsewhere

NextRouter == \E r \in Req, method \in Methods, path \in Paths : HandleRequest(r, method, path)

SpecRouter == InitRouter /\ [][NextRouter]_vars

InitSession == AtRest("p004") /\ Elsewhere

NextSession ==
    \/ \E d \in DoReq : DoGet(d)
    \/ \E d \in DoReq : DoPost(d)
    \/ \E d \in DoReq : DoJsonParsed(d)
    \/ \E d \in DoReq : DoGetReturns(d)
    \/ \E d \in DoReq : DoPutReturns(d)
    \/ \E d \in DoReq : DoDelete(d)
    \/ \E d \in DoReq : DoDeleteReturns(d)
    \/ \E d \in DoReq : DoNotFound(d)

SpecSession == InitSession /\ [][NextSession]_vars

-----------------------------------------------------------------------------
(* The page each router serves: the script that sends the chat message.    *)

\* input.value.trim()
Trim(text) == IF text = " " THEN "" ELSE text

\* Sends are numbered in the order the page starts them.
NextSend(k) == send[k] = "none" /\ (IF k = 1 THEN TRUE ELSE send[k - 1] # "none")

\* sendMessage() / send(): returns at once on an empty text; otherwise clears
\* the input, disables the send button (part_000: and the input) and starts
\* the fetch of /api/chat.
SendMessage(k, via) ==
    /\ NextSend(k)
    /\ Trim(inputValue) # ""
    /\ inputValue' = ""
    /\ sendBtnDisabled' = TRUE
    /\ inputDisabled' = (IF variant = "p000" THEN TRUE ELSE inputDisabled)
    /\ send' = [send EXCEPT ![k] = "inFlight"]
    /\ sendVia' = [sendVia EXCEPT ![k] = via]

\* The user edits the text; a disabled input takes no keys.
TypeText(text) ==
    /\ ~inputDisabled
    /\ text # inputValue
    /\ inputValue' = text
    /\ UNCHANGED <<mainVars, doVars, toolVars, sendBtnDisabled, inputDisabled, send,
                   sendVia>>

\* Click on the send button; a disabled button dispatches no click.
ClickSend(k) ==
    /\ ~sendBtnDisabled
    /\ SendMessage(k, "button")
    /\ UNCHANGED <<mainVars, doVars, toolVars>>

\* Enter (without Shift) in the input: the keydown handler calls the send
\* function without looking at the button.
PressEnter(k) ==
    /\ ~inputDisabled
    /\ SendMessage(k, "enter")
    /\ UNCHANGED <<mainVars, doVars, toolVars>>

\* Every completion path of a send re-enables what the send disabled.
Reenable ==
    /\ sendBtnDisabled' = FALSE
    /\ inputDisabled' = (IF variant = "p000" THEN FALSE ELSE inputDisabled)

\* The fetch resolves, with a success or with an error response.
FetchResolves(k, how) ==
    /\ send[k] = "inFlight"
    /\ send' = [send EXCEPT ![k] = how]
    /\ Reenable
    /\ UNCHANGED <<mainVars, doVars, toolVars, inputValue, sendVia>>

\* The fetch rejects: network failure.
FetchRejects(k) ==
    /\ send[k] = "inFlight"
    /\ send' = [send EXCEPT ![k] = "networkFailure"]
    /\ Reenable
    /\ UNCHANGED <<mainVars, doVars, toolVars, inputValue, sendVia>>

InitPage == \E v \in HttpVariants : AtRest(v) /\ Elsewhere

NextPage ==
    \/ \E text \in Texts : TypeText(text)
    \/ \E k \in Send : ClickSend(k)
    \/ \E k \in Send : PressEnter(k)
    \/ \E k \in Send, how \in {"ok", "errorResponse"} : FetchResolves(k, how)
    \/ \E k \in Send : FetchRejects(k)

SpecPage == InitPage /\ [][NextPage]_vars

-----------------------------------------------------------------------------
(* part_002, part_003: the scheduleAudit tool.                             *)

ToolFiles == {"part_002", "part_003"}
WhenTypes == {"scheduled", "delayed", "cron", "no-schedule"}

\* The field of `when` each type carries.
WhenField(type) ==
    CASE type = "scheduled" -> "date"
      [] type = "delayed" -> "delayInSeconds"
      [] type = "cron" -> "cron"
      [] OTHER -> "undefined"

Invokes(c) == toolOutcome[c] = "none" /\ (IF c = 1 THEN TRUE ELSE toolOutcome[c - 1] # "none")

\* agent.schedule(input, "executeTask", description)
AgentSchedule(c, input) ==
    schedules' = Append(schedules, [call |-> c, input |-> input, callback |-> "executeTask"])

\* execute({when, description}) of scheduleAudit in file f.  part_002 throws
\* without an agent and returns "Invalid schedule." for a type it does not
\* know; part_003 has neither test: it calls agent.schedule in every case,
\* which throws a TypeError when agent is undefined.
ScheduleAudit(c, f, type, agent) ==
    /\ Invokes(c)
    /\ toolFile' = [toolFile EXCEPT ![c] = f]
    /\ whenType' = [whenType EXCEPT ![c] = type]
    /\ hasAgent' = [hasAgent EXCEPT ![c] = agent]
    /\ IF ~agent
       THEN /\ toolOutcome' = [toolOutcome EXCEPT ![c] = "threw"]
            /\ UNCHANGED schedules
       ELSE IF f = "part_002" /\ WhenField(type) = "undefined"
       THEN /\ toolOutcome' = [toolOutcome EXCEPT ![c] = "invalid"]
            /\ UNCHANGED schedules
       ELSE /\ AgentSchedule(c, WhenField(type))
            /\ toolOutcome' = [toolOutcome EXCEPT ![c] = "scheduled"]
    /\ UNCHANGED <<mainVars, doVars, pageVars>>

InitTool == AtRest("agent") /\ Elsewhere

NextTool ==
    \E c \in Call, f \in ToolFiles, type \in WhenTypes, agent \in BOOLEAN :
        ScheduleAudit(c, f, type, agent)

SpecTool == InitTool /\ [][NextTool]_vars

-----------------------------------------------------------------------------
\* Session ids are opaque to every handler, so the ids are taken up in a
\* fixed order: a request names "s2" only once a request has named "s1".
SessionsInUse ==
    {s \in SessionIds : s = "s2" => \E q \in Req : sid[q] = "s1"}

Next ==
    \/ \E r \in Req, q \in OtherRequests : HandleRequest(r, q[1], q[2])
    \/ \E r \in Req : ChatBadJson(r)
    \/ \E r \in Req, m \in Messages, s \in SessionsInUse, h \in Hints :
          HandleChat(r, m, s, h)
    \/ \E r \in Req, res \in [ok : BOOLEAN, content : Replies] : ModelReturns(r, res)
    \/ \E r \in Req : ModelFails(r)
    \/ \E r \in Req : InsertUser(r)
    \/ \E r \in Req : InsertUserFails(r)
    \/ \E r \in Req : InsertAssistant(r)
    \/ \E r \in Req : InsertAssistantFails(r)
    \/ \E r \in Req, s \in SessionsInUse : HandleGetHistory(r, s)
    \/ \E r \in Req : SelectReturns(r)
    \/ \E r \in Req : SelectFails(r)
    \/ \E r \in Req, s \in SessionsInUse : HandleDeleteHistory(r, s)
    \/ \E r \in Req : DeleteRuns(r)
    \/ \E r \in Req : DeleteFails(r)
    \/ \E r \in Req, m \in Messages : AgentRespond(r, m)
    \/ \E r \in Req : AgentGetState(r)
    \/ \E r \in Req : AgentSetState(r)

Spec == Init /\ [][Next]_vars

\* The steps of Next for the inputs that decide which way a handler goes: an
\* empty or a non-empty message, an absent or a present sessionId, a call
\* that returns or throws.  What the texts say does not change the path.
NextFair ==
    \/ \E r \in Req, q \in OtherRequests : HandleRequest(r, q[1], q[2])
    \/ \E r \in Req : ChatBadJson(r)
    \/ \E r \in Req, m \in Messages : HandleChat(r, m, "s1", <<>>)
    \/ \E r \in Req, res \in [ok : BOOLEAN, content : {"ok"}] : ModelReturns(r, res)
    \/ \E r \in Req : ModelFails(r)
    \/ \E r \in Req : InsertUser(r)
    \/ \E r \in Req : InsertUserFails(r)
    \/ \E r \in Req : InsertAssistant(r)
    \/ \E r \in Req : InsertAssistantFails(r)
    \/ \E r \in Req, s \in {"", "s1"} : HandleGetHistory(r, s)
    \/ \E r \in Req : SelectReturns(r)
    \/ \E r \in Req : SelectFails(r)
    \/ \E r \in Req, s \in {"", "s1"} : HandleDeleteHistory(r, s)
    \/ \E r \in Req : DeleteRuns(r)
    \/ \E r \in Req : DeleteFails(r)
    \/ \E r \in Req, m \in Messages : AgentRespond(r, m)
    \/ \E r \in Req : AgentGetState(r)
    \/ \E r \in Req : AgentSetState(r)

\* Every call a handler awaits (body, model, store, getState, setState)
\* eventually returns or throws, and the runtime then resumes the handler:
\* a step that can be taken is taken.
FairSpec == Init /\ [][NextFair]_vars /\ WF_vars(NextFair)

TypeOK ==
    /\ variant \in Variants
    /\ clock \in 0..MaxClock
    /\ \A r \in Req : status[r] \in {0, 200, 204, 400, 404, 500}
    /\ \A r \in Req :
          (variant \in HttpVariants /\ pc[r] # "idle") =>
              request[r].method \in Methods /\ request[r].path \in Paths

-----------------------------------------------------------------------------
(* Vocabulary of the properties.                                           *)

ChatDone(r) == kind[r] = "chat" /\ pc[r] = "done"
HistoryDone(r) == kind[r] = "history" /\ pc[r] = "done"
DeleteDone(r) == kind[r] = "delete" /\ pc[r] = "done"

\* Rows of the table that request r inserted, in committed order.
RowsOf(r) == SelectSeq(db, LAMBDA row : row.req = r)

Roles(q) == [i \in DOMAIN q |-> q[i].role]

\* In the committed order of r's session, r's user turn is directly followed
\* by r's assistant turn.
PairAdjacent(r) ==
    LET L == SelectRows(db, sid[r]) IN
    \E i \in 1..(Len(L) - 1) :
        /\ L[i].req = r /\ L[i].role = "user" /\ L[i].content = msg[r]
        /\ L[i + 1].req = r /\ L[i + 1].role = "assistant"
        /\ L[i + 1].content = reply[r]

-----------------------------------------------------------------------------
\* C1: a chat request that returned success has left, in its session, exactly
\* one new user turn directly followed by exactly one new assistant turn.
\* (Both rows leave the table only together, through a later clear.)
AtomicPairingAfterSuccess ==
    \A r \in Req :
        (ChatDone(r) /\ status[r] = 200) =>
            /\ stored[r] = <<"user", "assistant">>
            /\ cleared[r] \in {0, 2}
            /\ (cleared[r] = 0 => PairAdjacent(r))

\* C2: once a chat request has finished, the table holds both of its turns,
\* each once, or neither of them.
BothOrNeither ==
    \A r \in Req :
        ChatDone(r) => Roles(RowsOf(r)) \in {<<>>, <<"user", "assistant">>}

\* C3: a chat request whose model call failed ran no INSERT and has no row in
\* the table: the request leaves every session's turns as they were.
NoPersistenceOnModelFailure ==
    \A r \in Req :
        outcome[r] = "modelError" =>
            /\ issued[r] = 0
            /\ stored[r] = <<>>
            /\ RowsOf(r) = <<>>
            /\ cleared[r] = 0

\* C3 witness: a model failure of a request on a session that holds turns of
\* another request.
ModelFailureSeen ==
    \E r \in Req :
        /\ outcome[r] = "modelError"
        /\ pc[r] = "done"
        /\ SelectRows(db, sid[r]) # <<>>

\* C4: a chat request with an empty or missing message or sessionId is
\* answered 400 and stores nothing.  (A body that does not parse is a
\* different failure and is left out.)
EmptyInputRejected ==
    \A r \in Req :
        (/\ kind[r] \in {"chat", "agent"}
         /\ outcome[r] # "badJson"
         /\ pc[r] # "idle"
         /\ (msg[r] = "" \/ (kind[r] = "chat" /\ sid[r] = ""))) =>
            /\ stored[r] = <<>>
            /\ issued[r] = 0
            /\ (pc[r] = "done" => status[r] = 400)

\* C5: a history read lists the turns in the order they were committed
\* (ascending id), also among turns with equal timestamps.
ListedInCommitOrder ==
    \A r \in Req :
        (HistoryDone(r) /\ status[r] = 200) =>
            \A i, j \in DOMAIN result[r] :
                i < j => result[r][i].id < result[r][j].id

\* C6: when every request has finished (here: with every insert accepted),
\* each stored user turn is directly followed by the assistant turn of the
\* same request and no assistant turn lacks its user turn directly before it.
\* The committed order is one of the orders list(S) may return.
PairsSurviveInterleaving ==
    ((\A r \in Req : pc[r] \in {"idle", "done"})
     /\ (\A r \in Req : issued[r] = Len(stored[r]))) =>
        \A s \in SessionIds :
            LET L == SelectRows(db, s) IN
            \A i \in DOMAIN L :
                /\ L[i].role = "user" =>
                      /\ i < Len(L)
                      /\ L[i + 1].role = "assistant"
                      /\ L[i + 1].req = L[i].req
                /\ L[i].role = "assistant" =>
                      /\ i > 1
                      /\ L[i - 1].role = "user"
                      /\ L[i - 1].req = L[i].req

\* Two chat requests on one session whose four inserts were all accepted and
\* none of whose rows a clear has removed.
BothStored(r1, r2) ==
    /\ r1 # r2
    /\ ChatDone(r1) /\ ChatDone(r2)
    /\ sid[r1] = sid[r2]
    /\ stored[r1] = <<"user", "assistant">> /\ stored[r2] = <<"user", "assistant">>
    /\ cleared[r1] = 0 /\ cleared[r2] = 0

AllFourPresent ==
    \A r1, r2 \in Req :
        BothStored(r1, r2) =>
            LET L == SelectRows(db, sid[r1]) IN
                /\ Roles(SelectSeq(L, LAMBDA row : row.req = r1)) = <<"user", "assistant">>
                /\ Roles(SelectSeq(L, LAMBDA row : row.req = r2)) = <<"user", "assistant">>

\* A clear of session s has run.
Cleared(s) == \E r \in Req : DeleteDone(r) /\ outcome[r] = "cleared" /\ sid[r] = s

SessionsIsolated ==
    /\ \A i \in DOMAIN db : db[i].session_id = sid[db[i].req]
    /\ \A r \in Req :
          HistoryDone(r) =>
              \A i \in DOMAIN result[r] :
                  /\ result[r][i].session_id = sid[r]
                  /\ sid[result[r][i].req] = sid[r]
    /\ \A q \in Req :
          (kind[q] = "chat" /\ ~Cleared(sid[q])) => Len(RowsOf(q)) = Len(stored[q])

\* C8 witness: a clear of one session has run while another session holds
\* turns.
ClearBesideOtherSession ==
    \E r \in Req :
        /\ DeleteDone(r) /\ status[r] = 200 /\ outcome[r] = "cleared"
        /\ \E b \in SessionIds \ {sid[r]} : SelectRows(db, b) # <<>>

\* C9: a clear whose DELETE the store ran answers success, and after every
\* clear that answered success the session has no turns.
ClearLeavesEmpty ==
    \A r \in Req :
        (DeleteDone(r) /\ sid[r] # "") =>
            /\ outcome[r] = "cleared" => status[r] = 200
            /\ status[r] = 200 => after[r] = {}

\* C10: a history read for a non-empty session id answers success with
\* exactly the turns the session held when it ran.
ListReturnsAllTurns ==
    \A r \in Req :
        (HistoryDone(r) /\ sid[r] # "") =>
            /\ status[r] = 200
            /\ {result[r][i].id : i \in DOMAIN result[r]} = after[r]
            /\ Len(result[r]) = Cardinality(after[r])

-----------------------------------------------------------------------------
(* The model input.                                                        *)

Inferring(r) == kind[r] = "chat" /\ pc[r] = "infer"

\* The turns of the model input ahead of its last turn.
PriorTurns(r) == SubSeq(messages[r], 1, Len(messages[r]) - 1)

\* The session's rows that were stored when r's model input was assembled.
StoredAtAssembly(r) == {row \in SeqToSet(db) : row.id \in after[r]}

TurnsOf(L) == [i \in DOMAIN L |-> [role |-> L[i].role, content |-> L[i].content]]

\* C11: in the workers, when the session held stored turns while the model
\* input of a chat request was assembled (and they are all still stored), the
\* turns ahead of the new user message are a listing of those stored turns,
\* not the client's conversationHistory.
PriorTurnsFromStore ==
    \A r \in Req :
        (/\ Inferring(r)
         /\ variant \in {"p000", "p004"}
         /\ after[r] # {}
         /\ Cardinality(StoredAtAssembly(r)) = Cardinality(after[r])) =>
            \E L \in OrderByTimestamp(StoredAtAssembly(r)) :
                PriorTurns(r) = TurnsOf(L)

\* C12: the messages handed to the model end with the turn
\* {role: user, content: message} of the request, and the turns ahead of it
\* are the turns of conversationHistory, one for one, in the same order and
\* with the same role and content.
ModelInputEndsWithUserTurn ==
    \A r \in Req :
        Inferring(r) =>
            /\ Len(messages[r]) = Len(hist[r]) + 1
            /\ messages[r][Len(messages[r])] = [role |-> "user", content |-> msg[r]]
            /\ \A i \in 1..Len(hist[r]) :
                  /\ messages[r][i].role = hist[r][i].role
                  /\ messages[r][i].content = hist[r][i].content

\* A model call is running on an input assembled from a two-turn history.
HistoryAheadOfUserTurn ==
    \E r \in Req :
        /\ Inferring(r)
        /\ Len(hist[r]) = 2
        /\ Len(messages[r]) = 3
        /\ messages[r][3].content = msg[r]

-----------------------------------------------------------------------------
(* Failures of the store and of the model during a chat request.           *)

\* C13: a chat request that ended after one of its INSERTs threw (its model
\* call had returned) answered 200 with success: true and the assistant
\* reply; the response carries no error.
StoreFailureStillReplies ==
    \A r \in Req :
        (ChatDone(r) /\ issued[r] > Len(stored[r])) =>
            /\ status[r] = 200
            /\ ChatResponse(r) = [success |-> TRUE, content |-> reply[r], error |-> ""]

\* A chat request answered 200 with a reply although none of its inserts
\* committed.
RepliedWithNothingStored ==
    \E r \in Req :
        /\ ChatDone(r) /\ issued[r] > 0 /\ stored[r] = <<>>
        /\ status[r] = 200 /\ reply[r] # ""

ReadFailureDegradesToEmpty ==
    \A r \in Req :
        (HistoryDone(r) /\ outcome[r] \in {"readFailed", "storeError"}) =>
            /\ sid[r] # ""
            /\ status[r] = 200
            /\ result[r] = <<>>

-----------------------------------------------------------------------------
(* The phases of a chat request.                                           *)

PhaseOrder == <<"Validating", "Assembling", "Inferring", "Persisting", "Done">>

Entered(r, ph) == \E i \in DOMAIN phases[r] : phases[r][i] = ph

EndedIn(r, ph) == phases[r] # <<>> /\ phases[r][Len(phases[r])] = ph

-----------------------------------------------------------------------------
(* What changes the stored turns.                                          *)

\* The step appends one row for chat request r, whose model call has
\* returned, and leaves the rows stored before as they were.
IsAppendBy(r) ==
    /\ kind[r] = "chat" /\ pc[r] \in {"saveUser", "saveAsst"}
    /\ Entered(r, "Persisting")
    /\ Len(db') = Len(db) + 1
    /\ SubSeq(db', 1, Len(db)) = db
    /\ LET row == db'[Len(db')] IN
          /\ row.req = r /\ row.session_id = sid[r]
          /\ row.role = (IF pc[r] = "saveUser" THEN "user" ELSE "assistant")
          /\ row.content = (IF pc[r] = "saveUser" THEN msg[r] ELSE reply[r])

\* The step is the DELETE of clear request r: the rows of its session go,
\* all other rows stay as they were.
IsClearBy(r) ==
    /\ kind[r] = "delete" /\ pc[r] = "delete" /\ status'[r] = 200
    /\ db' = SelectSeq(db, LAMBDA row : row.session_id # sid[r])

\* C18: a step that changes the table is an append of a chat request after
\* its model call returned, or a clear.  So no stored row is ever modified,
\* no row goes without a clear, and history reads, preflight, health,
\* front-end, unmatched and rejected requests leave the table as it was.
StoreChangesOnlyByAppendOrClear ==
    [][db' # db => \E r \in Req : IsAppendBy(r) \/ IsClearBy(r)]_vars

\* Both turns of a chat request are stored, and a request the router answers
\* itself, a history read and a rejected request have finished.
RowsBesideOtherRequests ==
    \E q, r \in Req :
        /\ q # r /\ Len(RowsOf(q)) = 2
        /\ pc[r] = "done"
        /\ \/ kind[r] \in {"options", "health", "frontend", "notFound", "history"}
           \/ status[r] = 400

\* C20: a request with method OPTIONS is answered by the router itself, not
\* by the chat, history or delete handler, and its status is 204.
PreflightAnswers204 ==
    \A r \in Req :
        (request[r].method = "OPTIONS" /\ pc[r] = "done") =>
            /\ kind[r] = "options"
            /\ status[r] = 204

\* C19: every stored turn has a non-empty session id and a non-empty content;
\* an INSERT with an empty content, such as the assistant turn of an empty
\* model reply, stores nothing.
StoredTurnsNonEmpty ==
    \A i \in DOMAIN db : db[i].session_id # "" /\ db[i].content # ""

-----------------------------------------------------------------------------
(* Racing executions of initializeDatabase.                                *)

\* C17: however the executions of initializeDatabase interleave, in one
\* instance or in several, the turns stored before are all still stored
\* unchanged, the table is present once an execution has finished its
\* statement or found the flag set, and no execution fails for the reason
\* that another one created the table first.
InitRaceSafe ==
    /\ db = (IF nextId = 1 THEN <<>> ELSE PriorRows)
    /\ \A t \in Exec :
          /\ initOutcome[t] \in {"none", "skipped", "created", "storeError"}
          /\ initOutcome[t] \in {"skipped", "created"} => tableExists
    /\ \A i \in Inst : dbInitialized[i] => tableExists

\* Two executions in one instance and one in another each ran the CREATE
\* statement, over a table that held turns.
ThreeCreatesOverStoredTurns ==
    /\ db = PriorRows
    /\ \E t, u, w \in Exec :
          /\ t # u /\ initInst[t] = initInst[u] /\ initInst[w] # initInst[t]
          /\ initOutcome[t] = "created" /\ initOutcome[u] = "created"
          /\ initOutcome[w] = "created"
-----------------------------------------------------------------------------
(* The ChatSession durable object.                                         *)

Occurrences(q, x) == Cardinality({i \in DOMAIN q : q[i] = x})

\* C25: the message of every completed POST /messages that no DELETE has
\* removed is stored exactly once, and no message is stored twice; a GET
\* lists every message whose POST had completed when it read, once; and a
\* GET that read after a DELETE with no put in between returns the empty
\* list.
SessionKeepsEveryPost ==
    /\ \A p \in DoReq :
          (doKind[p] = "post" /\ doPc[p] = "done" /\ p \notin doWiped) =>
              Occurrences(doStorage, p) = 1
    /\ \A p \in DoReq : Occurrences(doStorage, p) <= 1
    /\ \A g \in DoReq :
          (doKind[g] = "get" /\ doPc[g] = "done") =>
              /\ \A p \in doSeenDone[g] : Occurrences(doResult[g], p) = 1
              /\ doReadAfter[g] = "delete" => doResult[g] = <<>>

\* Two POSTs were both in flight, both completed, and a GET listed both.
OverlappingPostsListed ==
    \E p, q, g \in DoReq :
        /\ p < q /\ doSeenDone[g] = {p, q}
        /\ doResult[g] = <<q, p>>

\* C21: every response carries Access-Control-Allow-Origin: *, the ones of
\* the ChatSession object included.
EveryResponseHasCors ==
    \A d \in DoReq :
        doPc[d] = "done" => <<"Access-Control-Allow-Origin", "*">> \in doHeaders[d]

-----------------------------------------------------------------------------
(* Requests that are rejected before any handler work.                     *)

\* C22: a GET or DELETE /api/history whose sessionId is absent or empty is
\* answered 400 on arrival: it never issues the SELECT or the DELETE, so it
\* reads nothing, returns no turns and removes nothing.
MissingSessionIdRejected ==
    \A r \in Req :
        (kind[r] \in {"history", "delete"} /\ sid[r] = "") =>
            /\ pc[r] = "done" /\ status[r] = 400 /\ outcome[r] = "invalid"
            /\ result[r] = <<>> /\ after[r] = {}
            /\ \A q \in Req : cleared[q] = 0 \/ \E d \in Req : d # r /\ kind[d] = "delete"

\* A request for the history or its removal came without sessionId while
\* turns were stored, and was rejected.
RejectedOverStoredTurns ==
    \E r \in Req :
        /\ kind[r] \in {"history", "delete"} /\ sid[r] = ""
        /\ status[r] = 400 /\ db # <<>>

\* The request lines each variant has a branch for, written out.
ApiLines ==
    {<<"POST", "/api/chat">>, <<"GET", "/api/history">>, <<"DELETE", "/api/history">>}
Preflights == {<<"OPTIONS", path>> : path \in Paths}
AnyMethod(path) == {<<method, path>> : method \in Methods}
Served(v) ==
    CASE v = "server" -> ApiLines \cup Preflights \cup AnyMethod("/health") \cup AnyMethod("/")
      [] v \in {"p000", "p004"} -> ApiLines \cup Preflights \cup AnyMethod("/")
      [] v = "agent" -> {<<"POST", "/chat">>}

Line(r) == <<request[r].method, request[r].path>>

\* C23: a request whose method and path match no route is answered 404 the
\* moment it arrives: no model call, no statement on the store, and the
\* stored turns (rows of the table, messages of the agent) stay as they were.
UnmatchedRouteAnswers404 ==
    \A r \in Req :
        (pc[r] # "idle" /\ Line(r) \notin Served(variant)) =>
            /\ pc[r] = "done" /\ status[r] = 404 /\ kind[r] = "notFound"
            /\ phases[r] = <<>> /\ messages[r] = <<>> /\ issued[r] = 0
            /\ result[r] = <<>> /\ after[r] = {}
            /\ db = (IF variant = "agent" THEN <<>> ELSE PriorRows)
            /\ agentState = (IF variant = "agent" THEN PushTurns(<<>>, "hi") ELSE <<>>)

\* GET /api/chat and PUT /api/history were both answered.
BothExamplesAnswered ==
    \E r, q \in Req :
        /\ Line(r) = <<"GET", "/api/chat">> /\ pc[r] = "done"
        /\ Line(q) = <<"PUT", "/api/history">> /\ pc[q] = "done"

-----------------------------------------------------------------------------
(* ChatAgent.respond under overlapping calls.                              *)

RespondDone(r) == kind[r] = "agent" /\ pc[r] = "done"

-----------------------------------------------------------------------------
(* part_004: the dbInitialized flag.                                       *)

\* The flag of an instance is set only when one of its executions completed
\* the CREATE statement without error.
FlagOnlyAfterCreate ==
    \A i \in Inst :
        dbInitialized[i] =>
            \E t \in Exec : initInst[t] = i /\ initOutcome[t] = "created"

\* A step never resets a flag; a failing statement ends its execution
\* normally and leaves every flag as it was; and an execution that starts
\* issues the statement exactly when the flag of its instance is not set.
FlagStep ==
    /\ \A i \in Inst : dbInitialized[i] => dbInitialized'[i]
    /\ \A t \in Exec :
          (initOutcome[t] # "storeError" /\ initOutcome'[t] = "storeError") =>
              initPc'[t] = "done" /\ dbInitialized' = dbInitialized
    /\ \A t \in Exec :
          (initPc[t] = "idle" /\ initPc'[t] # "idle") =>
              (initPc'[t] = "creating" <=> ~dbInitialized[initInst'[t]])

\* C26: dbInitialized is true only after a CREATE TABLE IF NOT EXISTS of the
\* instance completed without error and is never reset; a failed
\* initialization leaves it false and ends without an error for the
\* caller, and the next call issues the statement again.
FlagTracksCreate == []FlagOnlyAfterCreate /\ [][FlagStep]_vars

\* In one instance an initialization failed and another one created the
\* table and set the flag, while a second instance still has its flag unset
\* after a failure of its own.
RetriedAfterFailure ==
    \E t, u, w \in Exec :
        /\ t # u /\ initInst[t] = initInst[u] /\ initInst[w] # initInst[t]
        /\ initOutcome[t] = "storeError" /\ initOutcome[u] = "created"
        /\ dbInitialized[initInst[t]]
        /\ initOutcome[w] = "storeError" /\ ~dbInitialized[initInst[w]]

-----------------------------------------------------------------------------
(* Every request is answered.                                              *)

ResponseStatuses == {200, 204, 400, 404, 500}

\* The request has its response, with one of the statuses of the routers.
Answered(r) == pc[r] = "done" /\ status[r] \in ResponseStatuses

\* A request has a status exactly when it has been answered.
StatusOnlyWithResponse ==
    \A r \in Req : IF pc[r] = "done" THEN Answered(r) ELSE status[r] = 0

\* An answered request is not answered again.
AnsweredOnce ==
    \A r \in Req : pc[r] = "done" => pc'[r] = "done" /\ status'[r] = status[r]

-----------------------------------------------------------------------------
(* The page's send control.                                                *)

InFlight == {k \in Send : send[k] = "inFlight"}

\* C28: the page never has two /api/chat requests in flight, and the send
\* button is disabled for as long as one is.
OneChatInFlight ==
    /\ Cardinality(InFlight) <= 1
    /\ InFlight # {} => sendBtnDisabled

-----------------------------------------------------------------------------
(* The scheduleAudit tool.                                                 *)

ScheduledBy(c) == {i \in DOMAIN schedules : schedules[i].call = c}

\* C30: an invocation with an agent and a when.type of scheduled, delayed or
\* cron has called agent.schedule exactly once, with the matching field
\* and callback executeTask; any other invocation has scheduled nothing.
ScheduleMatchesWhen ==
    \A c \in Call :
        toolOutcome[c] # "none" =>
            IF hasAgent[c] /\ whenType[c] \in {"scheduled", "delayed", "cron"}
            THEN /\ Cardinality(ScheduledBy(c)) = 1
                 /\ \A i \in ScheduledBy(c) :
                       /\ schedules[i].callback = "executeTask"
                       /\ schedules[i].input = WhenField(whenType[c])
            ELSE ScheduledBy(c) = {}

-----------------------------------------------------------------------------
(* The preflight and the methods of the API.                               *)

\* The methods the router of variant v has a handler for on an /api path.
ApiMethods(v) ==
    {method \in Methods :
        \E path \in {"/api/chat", "/api/history"} :
            Route(v, method, path) \in {"chat", "history", "delete"}}

\* C29: the preflight response of every router lists, in
\* Access-Control-Allow-Methods, every method the router serves on an /api
\* route, DELETE included.
PreflightAllowsApiMethods ==
    \A r \in Req :
        (kind[r] = "options" /\ pc[r] = "done") =>
            ApiMethods(variant) \subseteq AllowMethods(variant)
====
